---- MODULE Spec2Model ----
(***************************************************************************)
(* A model of tools/datasets/csvutil.py: the CSV manifest curation         *)
(* pipeline (main), its output-path synthesis (get_output_path), the       *)
(* caption prefix removal (remove_caption_prefix) and the media prober     *)
(* (get_video_info).                                                       *)
(*                                                                         *)
(* Encodings.  A Python string is a sequence of one-character strings.     *)
(* An optional argument is <<>> for None and <<v>> for the value v.  A     *)
(* caption cell is a record [t, s]: t = "str" with the characters s, "nan" *)
(* for a missing CSV cell (pandas reads it as float NaN) and "None" for    *)
(* Python's None.  A float that may be NaN is <<>> for NaN and <<v>>       *)
(* otherwise.  A raised exception ends the run in pc = "failed" with the   *)
(* exception's name in error.                                              *)
(***************************************************************************)
EXTENDS Integers, Sequences, FiniteSets, TLC

VARIABLES
  args,          \* the parsed command line (parse_args)
  inputs,        \* the CSV files the input patterns glob to, in order
  data,          \* main's DataFrame: the rows, in order
  columns,       \* data.columns
  input_name,    \* main's input_name, a sequence of name tokens
  output_path,   \* main's output_path, a sequence of path tokens
  sharded_data,  \* main's sharded_data
  shard_i,       \* the loop variable i of the shard loop
  files,         \* the output files on disk: path -> [columns, rows]
  saved,         \* the paths of the "Saved ... samples to" lines, in order
  pc,            \* main's position
  error,         \* the exception that ended the run, "" if none
  caption,       \* the argument of a remove_caption_prefix call
  once,          \* remove_caption_prefix(caption)
  twice,         \* remove_caption_prefix(remove_caption_prefix(caption))
  cpc            \* the position of the caption driver

vars == <<args, inputs, data, columns, input_name, output_path, sharded_data,
          shard_i, files, saved, pc, error, caption, once, twice, cpc>>

pipeVars == <<args, inputs, data, columns, input_name, output_path,
              sharded_data, shard_i, files, saved, pc, error>>

capVars == <<caption, once, twice, cpc>>

(***************************************************************************)
(* Bounds of the model.                                                    *)
(***************************************************************************)
MaxRows == 3

MaxShard == 3

MaxTail == 2

(***************************************************************************)
(* Optional values and generic sequence helpers.                           *)
(***************************************************************************)
None == <<>>

Some(v) == <<v>>

IsNone(x) == x = <<>>

Val(x) == x[1]

RECURSIVE Concat(_)
Concat(ss) == IF ss = <<>> THEN <<>> ELSE Head(ss) \o Concat(Tail(ss))

Range(s) == {s[i] : i \in DOMAIN s}

Drop(s, n) == SubSeq(s, n + 1, Len(s))

StartsWith(s, p) == Len(p) <= Len(s) /\ SubSeq(s, 1, Len(p)) = p

(***************************************************************************)
(* Python str methods on character sequences.                              *)
(***************************************************************************)
Whitespace == {" "}

LowerChars == <<"a","b","c","d","e","f","g","h","i","j","k","l","m","n","o","p","q","r","s","t","u","v","w","x","y","z">>

UpperChars == <<"A","B","C","D","E","F","G","H","I","J","K","L","M","N","O","P","Q","R","S","T","U","V","W","X","Y","Z">>

IsLower(c) == c \in Range(LowerChars)

Upper(c) ==
  IF IsLower(c)
  THEN UpperChars[CHOOSE i \in DOMAIN LowerChars : LowerChars[i] = c]
  ELSE c

RECURSIVE LStrip(_)
LStrip(s) ==
  IF s # <<>> /\ Head(s) \in Whitespace THEN LStrip(Tail(s)) ELSE s

RECURSIVE RStrip(_)
RStrip(s) ==
  IF s # <<>> /\ s[Len(s)] \in Whitespace
  THEN RStrip(SubSeq(s, 1, Len(s) - 1))
  ELSE s

Strip(s) == RStrip(LStrip(s))

(***************************************************************************)
(* Caption cells.                                                          *)
(***************************************************************************)
Str(s) == [t |-> "str", s |-> s]

NaNCell == [t |-> "nan", s |-> <<>>]

NoneCell == [t |-> "None", s |-> <<>>]

Raise(e) == [t |-> "raise", s |-> <<e>>]

IsStr(c) == c.t = "str"

IsRaise(c) == c.t = "raise"

(***************************************************************************)
(* LLAVA_PREFIX and remove_caption_prefix.                                 *)
(***************************************************************************)
LLAVA_PREFIX ==
  << <<"T","h","e"," ","v","i","d","e","o"," ","s","h","o","w","s">>,
     <<"T","h","e"," ","v","i","d","e","o"," ","c","a","p","t","u","r","e","s">>,
     <<"T","h","e"," ","v","i","d","e","o"," ","f","e","a","t","u","r","e","s">>,
     <<"T","h","e"," ","v","i","d","e","o"," ","d","e","p","i","c","t","s">>,
     <<"T","h","e"," ","v","i","d","e","o"," ","p","r","e","s","e","n","t","s">>,
     <<"T","h","e"," ","v","i","d","e","o"," ","f","e","a","t","u","r","e","s">>,
     <<"T","h","e"," ","v","i","d","e","o"," ","i","s"," ">>,
     <<"I","n"," ","t","h","e"," ","v","i","d","e","o",",">>,
     <<"T","h","e"," ","i","m","a","g","e"," ","s","h","o","w","s">>,
     <<"T","h","e"," ","i","m","a","g","e"," ","c","a","p","t","u","r","e","s">>,
     <<"T","h","e"," ","i","m","a","g","e"," ","f","e","a","t","u","r","e","s">>,
     <<"T","h","e"," ","i","m","a","g","e"," ","d","e","p","i","c","t","s">>,
     <<"T","h","e"," ","i","m","a","g","e"," ","p","r","e","s","e","n","t","s">>,
     <<"T","h","e"," ","i","m","a","g","e"," ","f","e","a","t","u","r","e","s">>,
     <<"T","h","e"," ","i","m","a","g","e"," ","i","s"," ">>,
     <<"T","h","e"," ","i","m","a","g","e"," ","p","o","r","t","r","a","y","s">>,
     <<"I","n"," ","t","h","e"," ","i","m","a","g","e",",">> >>

\* The prefixes the caption starts with, as indices into LLAVA_PREFIX.
MatchingPrefixes(s) == {i \in DOMAIN LLAVA_PREFIX : StartsWith(s, LLAVA_PREFIX[i])}

\* Lines 78-81: strip the prefix, trim, uppercase a lowercase first character.
\* caption[0] of an empty remainder raises IndexError.
StripPrefix(s, prefix) ==
  LET rest == Strip(Drop(s, Len(prefix)))
  IN  IF rest = <<>> THEN Raise("IndexError")
      ELSE IF IsLower(rest[1]) THEN Str(<<Upper(rest[1])>> \o Tail(rest))
      ELSE Str(rest)

\* remove_caption_prefix(caption).  A float (NaN) caption stops in
\* breakpoint(); None has no startswith (AttributeError); a caption that
\* starts with no prefix falls off the loop and the function returns None.
remove_caption_prefix(c) ==
  IF c.t = "nan" THEN Raise("breakpoint")
  ELSE IF c.t = "None" THEN Raise("AttributeError")
  ELSE LET m == MatchingPrefixes(c.s)
       IN  IF m = {} THEN NoneCell
           ELSE StripPrefix(c.s, LLAVA_PREFIX[CHOOSE i \in m : \A j \in m : i <= j])

(***************************************************************************)
(* Paths of media files.  A path is [dir, name, ext]: the directory        *)
(* components (the first is "/" for an absolute path), the file name       *)
(* without its extension, and the extension os.path.splitext splits off.   *)
(***************************************************************************)
Cwd == <<"/", "w">>

Path(d, n, e) == [dir |-> d, name |-> n, ext |-> e]

NoPath == Path(<<>>, "", "")

IsAbs(d) == d # <<>> /\ d[1] = "/"

\* os.path.normpath on components: ".." removes the component before it.
RECURSIVE NormFrom(_, _)
NormFrom(done, rest) ==
  IF rest = <<>> THEN done
  ELSE IF Head(rest) = ".."
       THEN IF Len(done) > 1
            THEN NormFrom(SubSeq(done, 1, Len(done) - 1), Tail(rest))
            ELSE NormFrom(done, Tail(rest))
       ELSE NormFrom(Append(done, Head(rest)), Tail(rest))

\* os.path.abspath of a directory.
AbsDir(d) == IF IsAbs(d) THEN NormFrom(<<"/">>, Tail(d)) ELSE NormFrom(Cwd, d)

RECURSIVE CommonLen(_, _)
CommonLen(a, b) ==
  IF a = <<>> \/ b = <<>> \/ Head(a) # Head(b) THEN 0
  ELSE 1 + CommonLen(Tail(a), Tail(b))

\* os.path.relpath(x, start): ".." for every component of start below the
\* common prefix, then the rest of x.
RelPath(x, start) ==
  LET xs == AbsDir(x.dir)
      ss == AbsDir(start)
      i  == CommonLen(xs, ss)
  IN  Path([k \in 1..(Len(ss) - i) |-> ".."] \o Drop(xs, i), x.name, x.ext)

\* os.path.join(base, x): an absolute x discards base.
JoinPath(base, x) ==
  IF IsAbs(x.dir) THEN x ELSE Path(base \o x.dir, x.name, x.ext)

\* The file a path names, whatever way it is written.
Resolve(p) == Path(AbsDir(p.dir), p.name, p.ext)

(***************************************************************************)
(* The media files on disk: what cv2 finds at a resolved path.             *)
(***************************************************************************)
VideoFile == Path(<<>>, "a", ".mp4")

ImageFile == Path(<<>>, "b", ".JPG")

BadVideoFile == Path(<<>>, "c", ".mp4")

BadImageFile == Path(<<>>, "d", ".png")

MediaOnDisk ==
  { [file |-> Resolve(VideoFile), kind |-> "video", frames |-> 2, h |-> 1, w |-> 2, fps |-> 3],
    [file |-> Resolve(ImageFile), kind |-> "image", frames |-> 1, h |-> 2, w |-> 1, fps |-> 0] }

\* os.path.exists(path)
Exists(p) == \E m \in MediaOnDisk : m.file = Resolve(p)

MediaAt(p) == CHOOSE m \in MediaOnDisk : m.file = Resolve(p)

(***************************************************************************)
(* get_video_info.  A NaN-able float is <<>> (NaN) or <<v>>; the aspect    *)
(* ratio height / width is kept as the pair <<height, width>>.             *)
(***************************************************************************)
IMG_EXTENSIONS == {".jpg", ".jpeg", ".png", ".ppm", ".bmp", ".pgm", ".tif", ".tiff", ".webp"}

\* str.lower on the extensions in use.
LowerExt(e) == IF e = ".JPG" THEN ".jpg" ELSE IF e = ".PNG" THEN ".png" ELSE e

Info(nf, h, w, ar, fps) ==
  [num_frames |-> nf, height |-> h, width |-> w, aspect_ratio |-> ar, fps |-> fps]

AspectRatio(h, w) == IF w > 0 THEN <<h, w>> ELSE <<>>

\* cv2.imread returns None for a file it cannot decode; a VideoCapture that
\* failed to open answers 0.0 to every cap.get.
get_video_info(p) ==
  LET ext == LowerExt(p.ext)
  IN  IF ext \in IMG_EXTENSIONS
      THEN IF Exists(p) /\ MediaAt(p).kind = "image"
           THEN Info(1, MediaAt(p).h, MediaAt(p).w,
                     AspectRatio(MediaAt(p).h, MediaAt(p).w), <<>>)
           ELSE Info(0, 0, 0, <<>>, <<>>)
      ELSE IF Exists(p) /\ MediaAt(p).kind = "video"
           THEN Info(MediaAt(p).frames, MediaAt(p).h, MediaAt(p).w,
                     AspectRatio(MediaAt(p).h, MediaAt(p).w), <<MediaAt(p).fps>>)
           ELSE Info(0, 0, 0, AspectRatio(0, 0), <<0>>)

\* The path names a file cv2 cannot decode.
Undecodable(p) ==
  ~ (Exists(p) /\ MediaAt(p).kind =
        (IF LowerExt(p.ext) \in IMG_EXTENSIONS THEN "image" ELSE "video"))

(***************************************************************************)
(* Caption predicates and html.unescape.                                   *)
(***************************************************************************)
\* re "https?://[^\s]+" matches somewhere in s.
HasUrl(s) ==
  \E i \in 1..Len(s) :
    LET r == Drop(s, i - 1)
    IN  \/ StartsWith(r, <<"h","t","t","p",":","/","/">>) /\ Len(r) > 7 /\ r[8] \notin Whitespace
        \/ StartsWith(r, <<"h","t","t","p","s",":","/","/">>) /\ Len(r) > 8 /\ r[9] \notin Whitespace

\* html.unescape on the character references in use: &amp; and &lt;.
RECURSIVE Unescape(_)
Unescape(s) ==
  IF s = <<>> THEN <<>>
  ELSE IF StartsWith(s, <<"&","a","m","p",";">>) THEN <<"&">> \o Unescape(Drop(s, 5))
  ELSE IF StartsWith(s, <<"&","l","t",";">>) THEN <<"<">> \o Unescape(Drop(s, 4))
  ELSE <<Head(s)>> \o Unescape(Tail(s))

\* html.unescape(cell): "'&' not in s" raises TypeError for NaN and None.
UnescapeCell(c) == IF IsStr(c) THEN Str(Unescape(c.s)) ELSE Raise("TypeError")

\* The captions lingua ranks English among its five best candidates.
CapDog == <<"A"," ","d","o","g">>

CapCat == <<"T","h","e"," ","v","i","d","e","o"," ","s","h","o","w","s"," ","a"," ","c","a","t">>

CapBare == <<"T","h","e"," ","v","i","d","e","o"," ","s","h","o","w","s">>

CapUrl == <<"s","e","e"," ","h","t","t","p",":","/","/","x">>

CapAmp == <<"a"," ","&","a","m","p",";"," ","b">>

EnglishCaptions == {CapDog, CapCat, CapBare}

\* build_lang_detector: only "en" is in lang_dict.
LangSupported(l) == l \in {"en"}

\* detect_lang(caption) of a str caption.
detect_lang(c) == c.s \in EnglishCaptions

(***************************************************************************)
(* Rows and tables.  A row carries its DataFrame index and one field per   *)
(* column; columns says which of the fields exist.                         *)
(***************************************************************************)
InfoColumns == {"num_frames", "height", "width", "aspect_ratio", "fps"}

Row(i, p, t, nf, aes, match) ==
  [idx |-> i, path |-> p, text |-> t, num_frames |-> nf, height |-> 0,
   width |-> 0, aspect_ratio |-> <<>>, fps |-> <<>>, aes |-> aes, match |-> match]

Table(d, stem, cols, rows) == [dir |-> d, stem |-> stem, columns |-> cols, rows |-> rows]

\* pd.concat(data, ignore_index=True): the rows in order, renumbered from 0.
ConcatRows(tables) ==
  LET all == Concat([k \in DOMAIN tables |-> tables[k].rows])
  IN  [k \in DOMAIN all |-> [all[k] EXCEPT !.idx = k - 1]]

ConcatColumns(tables) == UNION {tables[k].columns : k \in DOMAIN tables}

\* input_name: the base names up to their first ".", joined by "+".
RECURSIVE JoinStems(_)
JoinStems(tables) ==
  IF tables = <<>> THEN <<>>
  ELSE IF Len(tables) = 1 THEN <<Head(tables).stem>>
  ELSE <<Head(tables).stem, "+">> \o JoinStems(Tail(tables))

\* Difference without the negation of the mask.
Difference_KeepsMatches(rows, ref) ==
  SelectSeq(rows, LAMBDA r : r.path \in Range(ref.paths))

\* data[~data["path"].isin(ref["path"])]
Difference(rows, ref) == SelectSeq(rows, LAMBDA r : r.path \notin Range(ref.paths))

\* data[data["path"].isin(ref["path"])]
Intersection(rows, ref) == SelectSeq(rows, LAMBDA r : r.path \in Range(ref.paths))

(***************************************************************************)
(* get_output_path.  An output path is a sequence of tokens; ".csv" and    *)
(* "/" are tokens of their own.                                            *)
(***************************************************************************)
Flag(on, token) == IF on THEN <<token>> ELSE <<>>

Opt(x, token) == IF IsNone(x) THEN <<>> ELSE <<token>>

OptVal(x, token) == IF IsNone(x) THEN <<>> ELSE <<token, ToString(Val(x))>>

\* Lines 142-178: the name with one suffix per enabled option.
SuffixedName(a, name) ==
  name \o Opt(a.relpath, "_relpath") \o Opt(a.abspath, "_abspath")
       \o Flag(a.ext, "_ext") \o Flag(a.remove_empty_caption, "_noempty")
       \o (IF IsNone(a.lang) THEN <<>> ELSE <<"_", Val(a.lang)>>)
       \o Flag(a.remove_url, "_nourl") \o Flag(a.remove_caption_prefix, "_rcp")
       \o Flag(a.unescape, "_unescape") \o Flag(a.info, "_info")
       \o OptVal(a.fmin, "_fmin") \o OptVal(a.fmax, "_fmax")
       \o OptVal(a.aesmin, "_aesmin") \o OptVal(a.matchmin, "_matchmin")

\* Lines 180-185: the two assertions on the sort options.
SortAssertionFails(a) == ~IsNone(a.sort_descending) /\ ~IsNone(a.sort_ascending)

\* os.path.join(dir_path, f"{name}.csv")
JoinOutput(dir, name) ==
  (IF dir = <<>> THEN <<>> ELSE dir \o <<"/">>) \o name \o <<".csv">>

\* get_output_path(args, input_name) when no assertion fails.
get_output_path(a, name) ==
  IF ~IsNone(a.output) THEN Val(a.output)
  ELSE JoinOutput(a.input[1].dir,
                  SuffixedName(a, name)
                    \o Opt(a.sort_descending, "_sort") \o Opt(a.sort_ascending, "_sort"))

\* get_output_path raises AssertionError.
OutputPathRaises(a) == IsNone(a.output) /\ SortAssertionFails(a)

(***************************************************************************)
(* sort_values, np.array_split, str.replace, to_csv.                       *)
(***************************************************************************)
Ordered(rows, col, asc) ==
  \A i, j \in DOMAIN rows :
    i < j => IF asc THEN rows[i][col] <= rows[j][col] ELSE rows[i][col] >= rows[j][col]

IsPermutation(a, b) == Len(a) = Len(b) /\ Range(a) = Range(b)

\* sort_values that ignores ascending=False.
SortOutcomes_AlwaysAscending(rows, col, asc) ==
  {p \in [DOMAIN rows -> Range(rows)] : IsPermutation(p, rows) /\ Ordered(p, col, TRUE)}

\* data.sort_values(by=col, ascending=asc) with the default kind="quicksort",
\* which is not stable: any arrangement ordered by the key can come out.
SortOutcomes(rows, col, asc) ==
  {p \in [DOMAIN rows -> Range(rows)] : IsPermutation(p, rows) /\ Ordered(p, col, asc)}

\* np.array_split(data, n): the first len % n sections hold len // n + 1
\* rows, the others len // n.
SectionStart(len, n, k) ==
  LET each == len \div n
      extras == len % n
  IN  IF k <= extras THEN k * (each + 1) ELSE extras * (each + 1) + (k - extras) * each

\* A split that gives every section len // n rows and the last one the rest.
ArraySplit_RestInLast(rows, n) ==
  [k \in 1..n |-> SubSeq(rows, (k - 1) * (Len(rows) \div n) + 1,
                               IF k = n THEN Len(rows) ELSE k * (Len(rows) \div n))]

ArraySplit(rows, n) ==
  [k \in 1..n |-> SubSeq(rows, SectionStart(Len(rows), n, k - 1) + 1,
                               SectionStart(Len(rows), n, k))]

\* output_path.replace(".csv", f"_{i}.csv")
ShardPath(path, i) ==
  Concat([k \in DOMAIN path |->
            IF path[k] = ".csv" THEN <<"_", ToString(i), ".csv">> ELSE <<path[k]>>])

\* The directories that exist: the working directory, d and d.csv.
ExistingDirs == {<<>>, <<"d">>, <<"d", ".csv">>}

\* os.path.dirname of an output path.
DirOf(path) ==
  LET slashes == {k \in DOMAIN path : path[k] = "/"}
  IN  IF slashes = {} THEN <<>>
      ELSE SubSeq(path, 1, (CHOOSE k \in slashes : \A j \in slashes : j <= k) - 1)

\* to_csv raises OSError for a path in a directory that does not exist.
CanWrite(path) == DirOf(path) \in ExistingDirs

\* to_csv(path, index=False): the columns and the rows without their index.
Csv(cols, rows) ==
  [columns |-> cols, rows |-> [k \in DOMAIN rows |-> [c \in cols |-> rows[k][c]]]]

(***************************************************************************)
(* main, one action per stage.                                             *)
(***************************************************************************)
Goto(next) ==
  /\ pc' = next
  /\ UNCHANGED <<args, inputs, data, columns, input_name, output_path,
                 sharded_data, shard_i, files, saved, error, capVars>>

\* An exception leaves main: nothing after it runs.
Fail(e) ==
  /\ pc' = "failed"
  /\ error' = e
  /\ UNCHANGED <<args, inputs, data, columns, input_name, output_path,
                 sharded_data, shard_i, files, saved, capVars>>

SetData(rows, next) ==
  /\ data' = rows
  /\ pc' = next
  /\ UNCHANGED <<args, inputs, columns, input_name, output_path,
                 sharded_data, shard_i, files, saved, error, capVars>>

\* The first exception among the per-row results, "" if none raised.
FirstRaise(cells) ==
  IF \E k \in DOMAIN cells : IsRaise(cells[k])
  THEN cells[CHOOSE k \in DOMAIN cells :
               IsRaise(cells[k]) /\ \A j \in 1..(k - 1) : ~IsRaise(cells[j])].s[1]
  ELSE ""

\* Lines 193-206: read and concatenate the inputs.  pd.concat of no table
\* raises ValueError.
St_Load ==
  /\ pc = "load"
  /\ IF inputs = <<>> THEN Fail("ValueError")
     ELSE /\ data' = ConcatRows(inputs)
          /\ columns' = ConcatColumns(inputs)
          /\ input_name' = JoinStems(inputs)
          /\ pc' = "difference"
          /\ UNCHANGED <<args, inputs, output_path, sharded_data, shard_i,
                         files, saved, error, capVars>>

\* Lines 209-214.
St_Difference ==
  /\ pc = "difference"
  /\ IF IsNone(args.difference) THEN Goto("intersection")
     ELSE IF "path" \notin columns \/ ~Val(args.difference).has_path THEN Fail("KeyError")
     ELSE /\ data' = Difference(data, Val(args.difference))
          /\ input_name' = input_name \o <<"-", Val(args.difference).stem>>
          /\ pc' = "intersection"
          /\ UNCHANGED <<args, inputs, columns, output_path, sharded_data,
                         shard_i, files, saved, error, capVars>>

\* Lines 217-222.
St_Intersection ==
  /\ pc = "intersection"
  /\ IF IsNone(args.intersection) THEN Goto("output_path")
     ELSE IF "path" \notin columns \/ ~Val(args.intersection).has_path THEN Fail("KeyError")
     ELSE /\ data' = Intersection(data, Val(args.intersection))
          /\ input_name' = input_name \o <<"-", Val(args.intersection).stem>>
          /\ pc' = "output_path"
          /\ UNCHANGED <<args, inputs, columns, output_path, sharded_data,
                         shard_i, files, saved, error, capVars>>

\* Line 225.
St_OutputPath ==
  /\ pc = "output_path"
  /\ IF OutputPathRaises(args) THEN Fail("AssertionError")
     ELSE /\ output_path' = get_output_path(args, input_name)
          /\ pc' = "lang_prep"
          /\ UNCHANGED <<args, inputs, data, columns, input_name, sharded_data,
                         shard_i, files, saved, error, capVars>>

\* Lines 228-229: build_lang_detector asserts the language is known.
St_LangPrep ==
  /\ pc = "lang_prep"
  /\ IF ~IsNone(args.lang) /\ ~LangSupported(Val(args.lang))
     THEN Fail("AssertionError")
     ELSE Goto("ext")

\* Lines 232-234.
St_Ext ==
  /\ pc = "ext"
  /\ IF ~args.ext THEN Goto("remove_empty_caption")
     ELSE IF "path" \notin columns THEN Fail("AssertionError")
     ELSE SetData(SelectSeq(data, LAMBDA r : Exists(r.path)), "remove_empty_caption")

\* Lines 235-238: str.len() of a missing caption is NaN, and NaN > 0 is False.
St_RemoveEmptyCaption ==
  /\ pc = "remove_empty_caption"
  /\ IF ~args.remove_empty_caption THEN Goto("remove_url")
     ELSE IF "text" \notin columns THEN Fail("AssertionError")
     ELSE SetData(SelectSeq(data, LAMBDA r : IsStr(r.text) /\ Len(r.text.s) > 0),
                  "remove_url")

\* Lines 239-241: str.contains of a missing caption is NaN, and ~ of a
\* column holding NaN raises TypeError.
St_RemoveUrl ==
  /\ pc = "remove_url"
  /\ IF ~args.remove_url THEN Goto("lang")
     ELSE IF "text" \notin columns THEN Fail("AssertionError")
     ELSE IF \E k \in DOMAIN data : ~IsStr(data[k].text) THEN Fail("TypeError")
     ELSE SetData(SelectSeq(data, LAMBDA r : ~HasUrl(r.text.s)), "lang")

\* Lines 242-244: lingua raises TypeError for a caption that is no str.
St_Lang ==
  /\ pc = "lang"
  /\ IF IsNone(args.lang) THEN Goto("relpath")
     ELSE IF "text" \notin columns THEN Fail("AssertionError")
     ELSE IF \E k \in DOMAIN data : ~IsStr(data[k].text) THEN Fail("TypeError")
     ELSE SetData(SelectSeq(data, LAMBDA r : detect_lang(r.text)), "relpath")

\* A relpath stage that skips a table without the path column.
St_Relpath_SkipsMissing ==
  /\ pc = "relpath"
  /\ IF IsNone(args.relpath) \/ "path" \notin columns THEN Goto("abspath")
     ELSE SetData([k \in DOMAIN data |->
                     [data[k] EXCEPT !.path = RelPath(@, Val(args.relpath))]],
                  "abspath")

\* Lines 247-248: data["path"] of a table without the column raises KeyError.
St_Relpath ==
  /\ pc = "relpath"
  /\ IF IsNone(args.relpath) THEN Goto("abspath")
     ELSE IF "path" \notin columns THEN Fail("KeyError")
     ELSE SetData([k \in DOMAIN data |->
                     [data[k] EXCEPT !.path = RelPath(@, Val(args.relpath))]],
                  "abspath")

\* Lines 249-250.
St_Abspath ==
  /\ pc = "abspath"
  /\ IF IsNone(args.abspath) THEN Goto("remove_caption_prefix")
     ELSE IF "path" \notin columns THEN Fail("KeyError")
     ELSE SetData([k \in DOMAIN data |->
                     [data[k] EXCEPT !.path = JoinPath(Val(args.abspath), @)]],
                  "remove_caption_prefix")

\* Lines 251-253.
St_RemoveCaptionPrefix ==
  /\ pc = "remove_caption_prefix"
  /\ IF ~args.remove_caption_prefix THEN Goto("unescape")
     ELSE IF "text" \notin columns THEN Fail("AssertionError")
     ELSE LET res == [k \in DOMAIN data |-> remove_caption_prefix(data[k].text)]
          IN  IF FirstRaise(res) # "" THEN Fail(FirstRaise(res))
              ELSE SetData([k \in DOMAIN data |-> [data[k] EXCEPT !.text = res[k]]],
                           "unescape")

\* Lines 254-256.
St_Unescape ==
  /\ pc = "unescape"
  /\ IF ~args.unescape THEN Goto("info")
     ELSE IF "text" \notin columns THEN Fail("AssertionError")
     ELSE LET res == [k \in DOMAIN data |-> UnescapeCell(data[k].text)]
          IN  IF FirstRaise(res) # "" THEN Fail(FirstRaise(res))
              ELSE SetData([k \in DOMAIN data |-> [data[k] EXCEPT !.text = res[k]]],
                           "info")

\* Lines 257-259: zip(*info) of no row yields nothing, and unpacking it
\* into the five columns raises ValueError.
St_Info ==
  /\ pc = "info"
  /\ IF ~args.info THEN Goto("fmin")
     ELSE IF "path" \notin columns THEN Fail("KeyError")
     ELSE IF data = <<>> THEN Fail("ValueError")
     ELSE /\ data' = [k \in DOMAIN data |->
                        LET i == get_video_info(data[k].path)
                        IN  [data[k] EXCEPT !.num_frames = i.num_frames,
                                            !.height = i.height,
                                            !.width = i.width,
                                            !.aspect_ratio = i.aspect_ratio,
                                            !.fps = i.fps]]
          /\ columns' = columns \cup InfoColumns
          /\ pc' = "fmin"
          /\ UNCHANGED <<args, inputs, input_name, output_path, sharded_data,
                         shard_i, files, saved, error, capVars>>

\* Lines 262-264.
St_Fmin ==
  /\ pc = "fmin"
  /\ IF IsNone(args.fmin) THEN Goto("fmax")
     ELSE IF "num_frames" \notin columns THEN Fail("AssertionError")
     ELSE SetData(SelectSeq(data, LAMBDA r : r.num_frames >= Val(args.fmin)), "fmax")

\* Lines 265-267.
St_Fmax ==
  /\ pc = "fmax"
  /\ IF IsNone(args.fmax) THEN Goto("aesmin")
     ELSE IF "num_frames" \notin columns THEN Fail("AssertionError")
     ELSE SetData(SelectSeq(data, LAMBDA r : r.num_frames <= Val(args.fmax)), "aesmin")

\* Lines 268-270.
St_Aesmin ==
  /\ pc = "aesmin"
  /\ IF IsNone(args.aesmin) THEN Goto("matchmin")
     ELSE IF "aes" \notin columns THEN Fail("AssertionError")
     ELSE SetData(SelectSeq(data, LAMBDA r : r.aes >= Val(args.aesmin)), "matchmin")

\* Lines 271-273.
St_Matchmin ==
  /\ pc = "matchmin"
  /\ IF IsNone(args.matchmin) THEN Goto("sort_descending")
     ELSE IF "match" \notin columns THEN Fail("AssertionError")
     ELSE SetData(SelectSeq(data, LAMBDA r : r.match >= Val(args.matchmin)),
                  "sort_descending")

\* Lines 277-278: sort_values by a column the table lacks raises KeyError.
St_SortDescending ==
  /\ pc = "sort_descending"
  /\ IF IsNone(args.sort_descending) THEN Goto("sort_ascending")
     ELSE IF Val(args.sort_descending) \notin columns THEN Fail("KeyError")
     ELSE \E p \in SortOutcomes(data, Val(args.sort_descending), FALSE) :
            SetData(p, "sort_ascending")

\* Lines 279-280.
St_SortAscending ==
  /\ pc = "sort_ascending"
  /\ IF IsNone(args.sort_ascending) THEN Goto("shard")
     ELSE IF Val(args.sort_ascending) \notin columns THEN Fail("KeyError")
     ELSE \E p \in SortOutcomes(data, Val(args.sort_ascending), TRUE) :
            SetData(p, "shard")

\* Lines 283-284 and 289-291: split for the shard loop, or write the one file.
St_Shard ==
  /\ pc = "shard"
  /\ IF IsNone(args.shard) /\ ~CanWrite(output_path) THEN Fail("OSError")
     ELSE IF IsNone(args.shard)
     THEN /\ files' = (output_path :> Csv(columns, data)) @@ files
          /\ saved' = Append(saved, output_path)
          /\ pc' = "done"
          /\ UNCHANGED <<args, inputs, data, columns, input_name, output_path,
                         sharded_data, shard_i, error, capVars>>
     ELSE /\ sharded_data' = ArraySplit(data, Val(args.shard))
          /\ shard_i' = 0
          /\ pc' = "write_shard"
          /\ UNCHANGED <<args, inputs, data, columns, input_name, output_path,
                         files, saved, error, capVars>>

\* Lines 285-288: one iteration of the shard loop.
St_WriteShard ==
  /\ pc = "write_shard"
  /\ LET p == ShardPath(output_path, shard_i)
     IN  IF ~CanWrite(p) THEN Fail("OSError")
         ELSE /\ files' = (p :> Csv(columns, sharded_data[shard_i + 1])) @@ files
              /\ saved' = Append(saved, p)
              /\ shard_i' = shard_i + 1
              /\ pc' = IF shard_i + 1 = Val(args.shard) THEN "done" ELSE "write_shard"
              /\ UNCHANGED <<args, inputs, data, columns, input_name, output_path,
                             sharded_data, error, capVars>>

Next ==
  \/ St_Load \/ St_Difference \/ St_Intersection \/ St_OutputPath \/ St_LangPrep
  \/ St_Ext \/ St_RemoveEmptyCaption \/ St_RemoveUrl \/ St_Lang
  \/ St_Relpath \/ St_Abspath \/ St_RemoveCaptionPrefix \/ St_Unescape \/ St_Info
  \/ St_Fmin \/ St_Fmax \/ St_Aesmin \/ St_Matchmin
  \/ St_SortDescending \/ St_SortAscending \/ St_Shard \/ St_WriteShard

(***************************************************************************)
(* The command lines and input files of the model.                         *)
(***************************************************************************)
InputColumns == {"path", "text", "num_frames", "aes", "match"}

\* A reference CSV of --difference / --intersection: its base name and path column.
Ref(stem, paths) == [stem |-> stem, has_path |-> TRUE, paths |-> paths]

RefNoPath == [stem |-> "ref", has_path |-> FALSE, paths |-> <<>>]

Pattern(d, stem) == [dir |-> d, stem |-> stem]

\* parse_args with only the positional argument given.
BaseArgs ==
  [input |-> <<Pattern(<<>>, "a")>>, output |-> None, shard |-> None,
   sort_descending |-> None, sort_ascending |-> None,
   difference |-> None, intersection |-> None, relpath |-> None, abspath |-> None,
   ext |-> FALSE, remove_empty_caption |-> FALSE, lang |-> None,
   remove_url |-> FALSE, remove_caption_prefix |-> FALSE, unescape |-> FALSE,
   info |-> FALSE, fmin |-> None, fmax |-> None, aesmin |-> None, matchmin |-> None]

\* One value for every option, used when the option is given.
GivenArgs ==
  [input |-> <<Pattern(<<>>, "a")>>, output |-> Some(<<"out", ".csv">>), shard |-> Some(2),
   sort_descending |-> Some("aes"), sort_ascending |-> Some("match"),
   difference |-> Some(Ref("r", <<BadVideoFile>>)),
   intersection |-> Some(Ref("s", <<VideoFile, BadVideoFile>>)),
   relpath |-> Some(<<"d">>), abspath |-> Some(<<"/", "w">>),
   ext |-> TRUE, remove_empty_caption |-> TRUE, lang |-> Some("en"),
   remove_url |-> TRUE, remove_caption_prefix |-> TRUE, unescape |-> TRUE,
   info |-> TRUE, fmin |-> Some(1), fmax |-> Some(2), aesmin |-> Some(1),
   matchmin |-> Some(1)]

Options == DOMAIN BaseArgs \ {"input"}

\* The command line that gives exactly the options in S.
Given(S) == [f \in DOMAIN BaseArgs |-> IF f \in S THEN GivenArgs[f] ELSE BaseArgs[f]]

\* A row whose cells of the columns the file lacks are blank.
Blank(r, cols) ==
  [r EXCEPT !.path = IF "path" \in cols THEN @ ELSE NoPath,
            !.text = IF "text" \in cols THEN @ ELSE NaNCell,
            !.num_frames = IF "num_frames" \in cols THEN @ ELSE 0,
            !.aes = IF "aes" \in cols THEN @ ELSE 0,
            !.match = IF "match" \in cols THEN @ ELSE 0]

\* The file a.csv with the given columns and rows, indexed from 0.
InputFile(stem, cols, rows) ==
  Table(<<>>, stem, cols, [k \in DOMAIN rows |-> Blank([rows[k] EXCEPT !.idx = k - 1], cols)])

\* The run of command line a on the input files ins is about to start.
Start(a, ins) == args = a /\ inputs = ins

SeqsUpTo(S, n) == UNION {[1..k -> S] : k \in 0..n}

RECURSIVE SubsetsUpTo(_, _)
SubsetsUpTo(S, n) ==
  IF n = 0 THEN {{}}
  ELSE SubsetsUpTo(S, n - 1) \cup {T \cup {x} : T \in SubsetsUpTo(S, n - 1), x \in S}

CatRow == Row(0, VideoFile, Str(CapCat), 2, 1, 2)

DogRow == Row(0, BadVideoFile, Str(CapDog), 0, 2, 1)

\* Every stage alone and with up to MaxOptions - 1 others, on files that
\* lack one column or none.
MaxOptions == 2

ColumnSets == {InputColumns} \cup {InputColumns \ {c} : c \in InputColumns}

StageRuns ==
  \E S \in SubsetsUpTo(Options, MaxOptions), cols \in ColumnSets,
     rows \in {<<>>, <<CatRow, DogRow>>} :
    Start(Given(S), <<InputFile("a", cols, rows)>>)

\* Both sort options, with and without --output and --shard.
ConflictRuns ==
  \E S \in SUBSET {"output", "shard", "info", "fmin"} :
    Start(Given({"sort_descending", "sort_ascending"} \cup S),
          <<InputFile("a", InputColumns, <<CatRow, DogRow>>)>>)

\* Runs on no rows: an empty file, or a file whose rows an early stage removes.
EmptyRuns ==
  \/ \E S \in SUBSET {"relpath", "abspath", "remove_caption_prefix", "unescape", "info",
                      "fmin", "fmax", "aesmin", "matchmin", "shard"},
        T \in {{}, {"sort_descending"}, {"sort_ascending"}} :
       Start(Given(S \cup T), <<InputFile("a", InputColumns, <<>>)>>)
  \/ \E S \in SUBSET {"relpath", "abspath", "remove_caption_prefix", "unescape", "info"},
        T \in {{"difference"}, {"ext"}} :
       Start(Given(S \cup T), <<InputFile("a", InputColumns, <<DogRow>>)>>)

\* Sorting: up to MaxRows rows with keys 0..2.
KeyRows == {Row(0, VideoFile, Str(CapDog), 1, k, 2 - k) : k \in 0..2}

SortRuns ==
  \E S \in {{"sort_descending"}, {"sort_ascending"},
            {"sort_descending", "sort_ascending", "output"}},
     rows \in SeqsUpTo(KeyRows, MaxRows) :
    Start(Given(S), <<InputFile("a", InputColumns, rows)>>)

\* Writing: 0..MaxRows rows into one file (0) or 1..MaxShard shards, for
\* every kind of output path.
OutputPaths ==
  {None, Some(<<"out", ".csv">>), Some(<<"out", ".txt">>), Some(<<"out">>),
   Some(<<"d", ".csv", "/", "out", ".csv">>), Some(<<"e", "/", "out", ".csv">>)}

InputDirs == {<<>>, <<"d">>, <<"d", ".csv">>}

ShardRuns ==
  \E n \in 0..MaxShard, out \in OutputPaths, d \in InputDirs, len \in 0..MaxRows :
    Start([Given({"shard"}) EXCEPT !.shard = IF n = 0 THEN None ELSE Some(n),
                                   !.output = out,
                                   !.input = <<Pattern(d, "a")>>],
          <<Table(d, "a", InputColumns,
                  [k \in 1..len |-> Row(k - 1, VideoFile, Str(CapDog), 1, k, 0)])>>)

\* Difference and intersection: up to MaxRows rows against every reference.
PathRows == {Row(0, p, Str(CapDog), 1, 0, 0) : p \in {VideoFile, ImageFile}}

Refs ==
  {Ref("r", ps) : ps \in SeqsUpTo({VideoFile, ImageFile}, 2) \cup {<<BadVideoFile>>}}
  \cup {RefNoPath}

SetRuns ==
  \E S \in {{"difference"}, {"intersection"}, {"difference", "intersection"}},
     ref \in Refs, rows \in SeqsUpTo(PathRows, MaxRows) :
    Start([Given(S) EXCEPT !.difference = IF "difference" \in S THEN Some(ref) ELSE None,
                           !.intersection = IF "intersection" \in S THEN Some(ref) ELSE None],
          <<InputFile("a", InputColumns, rows)>>)

\* Captions and media: up to MaxMediaRows rows, the caption and probe stages
\* with one of the filters before them.  A text column with a row and no
\* string in it is read as float64 and is left out.
MaxMediaRows == 2

MediaRows ==
  {Row(0, VideoFile, Str(CapDog), 0, 0, 0), Row(0, ImageFile, Str(CapCat), 0, 0, 0),
   Row(0, BadVideoFile, Str(CapBare), 0, 0, 0), Row(0, BadImageFile, Str(CapUrl), 0, 0, 0),
   Row(0, VideoFile, Str(CapAmp), 0, 0, 0), Row(0, ImageFile, NaNCell, 0, 0, 0)}

MediaRuns ==
  \E S \in SUBSET {"remove_caption_prefix", "unescape", "info"},
     T \in {{}, {"ext"}, {"remove_empty_caption"}, {"remove_url"}, {"lang"}},
     rows \in SeqsUpTo(MediaRows, MaxMediaRows) :
    /\ rows = <<>> \/ \E k \in DOMAIN rows : IsStr(rows[k].text)
    /\ Start(Given(S \cup T), <<InputFile("a", {"path", "text"}, rows)>>)

\* Several input files, no input file (the patterns match nothing), and a
\* language lingua's dictionary lacks.
LoadRuns ==
  \/ \E S \in SUBSET {"shard", "info"},
        ins \in {<<>>,
                 <<InputFile("a", InputColumns, <<CatRow>>),
                   InputFile("b", InputColumns, <<DogRow, CatRow>>)>>} :
       Start(Given(S), ins)
  \/ Start([Given({"lang"}) EXCEPT !.lang = Some("fr")],
           <<InputFile("a", InputColumns, <<CatRow>>)>>)

Runs ==
  StageRuns \/ ConflictRuns \/ EmptyRuns \/ SortRuns \/ ShardRuns
    \/ SetRuns \/ MediaRuns \/ LoadRuns

(***************************************************************************)
(* The captions of the remove_caption_prefix driver.                       *)
(***************************************************************************)
TailChars == {" ", "a", "A", ","}

Prefixes == Range(LLAVA_PREFIX)

CaptionInputs ==
  {Str(p \o t) : p \in Prefixes \cup {<<>>}, t \in SeqsUpTo(TailChars, MaxTail)}
  \cup {Str(p \o <<" ">> \o q \o <<" ", "x">>) : p \in Prefixes, q \in Prefixes}

Idle == Str(<<>>)

(***************************************************************************)
(* The pipeline.                                                           *)
(***************************************************************************)
Init ==
  /\ Runs
  /\ data = <<>>
  /\ columns = {}
  /\ input_name = <<>>
  /\ output_path = <<>>
  /\ sharded_data = <<>>
  /\ shard_i = 0
  /\ files = <<>>
  /\ saved = <<>>
  /\ pc = "load"
  /\ error = ""
  /\ caption = Idle /\ once = Idle /\ twice = Idle /\ cpc = "idle"

Spec == Init /\ [][Next]_vars

(***************************************************************************)
(* The driver of remove_caption_prefix: apply it, then apply it to the     *)
(* result.                                                                 *)
(***************************************************************************)
Cap_Once ==
  /\ cpc = "start"
  /\ once' = remove_caption_prefix(caption)
  /\ cpc' = "once"
  /\ UNCHANGED <<caption, twice, pipeVars>>

\* An exception of the first call leaves no value to apply the second to.
Cap_Twice ==
  /\ cpc = "once"
  /\ twice' = IF IsRaise(once) THEN once ELSE remove_caption_prefix(once)
  /\ cpc' = "twice"
  /\ UNCHANGED <<caption, once, pipeVars>>

InitCaption ==
  /\ caption \in CaptionInputs
  /\ once = Idle /\ twice = Idle /\ cpc = "start"
  /\ args = BaseArgs /\ inputs = <<>> /\ data = <<>> /\ columns = {}
  /\ input_name = <<>> /\ output_path = <<>> /\ sharded_data = <<>>
  /\ shard_i = 0 /\ files = <<>> /\ saved = <<>> /\ pc = "idle" /\ error = ""

NextCaption == Cap_Once \/ Cap_Twice

SpecCaption == InitCaption /\ [][NextCaption]_vars
(***************************************************************************)
(* Properties.                                                             *)
(***************************************************************************)
NoOutput == DOMAIN files = {}

SortConflict == ~IsNone(args.sort_descending) /\ ~IsNone(args.sort_ascending)

\* C1: when both --sort-descending and --sort-ascending are given, whatever
\* the other options are, the run aborts before any output file is written:
\* it never reaches the writing stages and no file exists.
C1_SortConflictAborts ==
  SortConflict => NoOutput /\ pc \notin {"write_shard", "done"}

\* C2: prefix removal is idempotent on its output: the second application
\* returns what the first returned, and neither application raises.
C2_PrefixRemovalIdempotent ==
  cpc = "twice" => ~IsRaise(once) /\ ~IsRaise(twice) /\ twice = once

\* The position of a row in a table.
Pos(rows, r) == CHOOSE i \in DOMAIN rows : rows[i] = r

\* Rows with equal keys keep the relative order they had before.
Stable(before, after, col) ==
  \A i, j \in DOMAIN after :
    i < j /\ after[i][col] = after[j][col] => Pos(before, after[i]) < Pos(before, after[j])

\* A step of the descending sort stage that sorted.
SortedDescending ==
  pc = "sort_descending" /\ ~IsNone(args.sort_descending) /\ pc' = "sort_ascending"

\* A step of the ascending sort stage that sorted.
SortedAscending ==
  pc = "sort_ascending" /\ ~IsNone(args.sort_ascending) /\ pc' = "shard"

C4_ShardPartition ==
  pc = "write_shard" =>
    /\ Len(sharded_data) = Val(args.shard)
    /\ Concat(sharded_data) = data
    /\ \A i, j \in DOMAIN sharded_data :
         Len(sharded_data[i]) - Len(sharded_data[j]) <= 1

\* Rows were split into more shards than there are rows, of sizes 1 and 0.
C4_Witness ==
  /\ pc = "write_shard"
  /\ 0 < Len(data) /\ Len(data) < Val(args.shard)
  /\ \E i, j \in DOMAIN sharded_data : Len(sharded_data[i]) = 1 /\ sharded_data[j] = <<>>

\* The path of shard i: the output path with _<i> before its final .csv.
ShardName(path, i) == SubSeq(path, 1, Len(path) - 1) \o <<"_", ToString(i), ".csv">>

\* C5: with --shard N the run writes N files: no write of a shard fails
\* when the output path is in a directory that exists, the N shard paths
\* are pairwise distinct, each is the output path with _<i> inserted before
\* the final .csv extension, and each file holds the rows of shard i.
C5_ShardFiles ==
  /\ pc = "failed" /\ error = "OSError" /\ ~IsNone(args.shard) => ~CanWrite(output_path)
  /\ pc = "done" /\ ~IsNone(args.shard) =>
       /\ Cardinality(DOMAIN files) = Val(args.shard)
       /\ \A i \in 0..(Val(args.shard) - 1) :
            /\ output_path # <<>> /\ output_path[Len(output_path)] = ".csv" =>
                 saved[i + 1] = ShardName(output_path, i)
            /\ files[saved[i + 1]] = Csv(columns, sharded_data[i + 1])

\* Two tables split a third: no row in both, every row in one, in order.
Complements(a, b, whole) ==
  /\ Range(a) \cap Range(b) = {}
  /\ Range(a) \cup Range(b) = Range(whole)
  /\ Len(a) + Len(b) = Len(whole)
  /\ \A i, j \in DOMAIN a : i < j => Pos(whole, a[i]) < Pos(whole, a[j])
  /\ \A i, j \in DOMAIN b : i < j => Pos(whole, b[i]) < Pos(whole, b[j])

\* C6: the rows the difference stage keeps and the rows the intersection
\* with the same reference would keep are disjoint, together are exactly
\* the rows given, each in the order given; and the same for the rows the
\* intersection stage keeps against what the difference would keep.
C6_DifferenceIntersectionComplement ==
  [][/\ pc = "difference" /\ ~IsNone(args.difference) /\ pc' = "intersection" =>
          Complements(data', Intersection(data, Val(args.difference)), data)
     /\ pc = "intersection" /\ ~IsNone(args.intersection) /\ pc' = "output_path" =>
          Complements(Difference(data, Val(args.intersection)), data', data)]_vars

\* The difference stage has run and removed some rows and kept others.
C6_Witness ==
  /\ pc = "intersection" /\ ~IsNone(args.difference)
  /\ inputs # <<>>
  /\ 0 < Len(data) /\ Len(data) < Len(inputs[1].rows)

\* The stage at pc is enabled and reads a column the table lacks.
ReadsMissingColumn ==
  \/ pc = "difference" /\ ~IsNone(args.difference) /\ "path" \notin columns
  \/ pc = "intersection" /\ ~IsNone(args.intersection) /\ "path" \notin columns
  \/ pc = "ext" /\ args.ext /\ "path" \notin columns
  \/ pc = "relpath" /\ ~IsNone(args.relpath) /\ "path" \notin columns
  \/ pc = "abspath" /\ ~IsNone(args.abspath) /\ "path" \notin columns
  \/ pc = "info" /\ args.info /\ "path" \notin columns
  \/ pc = "remove_empty_caption" /\ args.remove_empty_caption /\ "text" \notin columns
  \/ pc = "remove_url" /\ args.remove_url /\ "text" \notin columns
  \/ pc = "lang" /\ ~IsNone(args.lang) /\ "text" \notin columns
  \/ pc = "remove_caption_prefix" /\ args.remove_caption_prefix /\ "text" \notin columns
  \/ pc = "unescape" /\ args.unescape /\ "text" \notin columns
  \/ pc = "fmin" /\ ~IsNone(args.fmin) /\ "num_frames" \notin columns
  \/ pc = "fmax" /\ ~IsNone(args.fmax) /\ "num_frames" \notin columns
  \/ pc = "aesmin" /\ ~IsNone(args.aesmin) /\ "aes" \notin columns
  \/ pc = "matchmin" /\ ~IsNone(args.matchmin) /\ "match" \notin columns
  \/ pc = "sort_descending" /\ ~IsNone(args.sort_descending)
       /\ Val(args.sort_descending) \notin columns
  \/ pc = "sort_ascending" /\ ~IsNone(args.sort_ascending)
       /\ Val(args.sort_ascending) \notin columns

\* C7: an enabled stage that reads a column the table lacks ends the run in
\* the failure state with an exception, no output file has been written
\* then, and nothing runs after the failure.
C7_MissingColumnAborts ==
  /\ [][ReadsMissingColumn =>
          /\ pc' = "failed"
          /\ error' \in {"AssertionError", "KeyError"}
          /\ DOMAIN files' = {}]_vars
  /\ [][pc # "failed"]_vars

\* --relpath ran on a table without the path column and the run failed with
\* KeyError, no file written.
C7_Witness ==
  /\ pc = "failed" /\ error = "KeyError"
  /\ ~IsNone(args.relpath) /\ IsNone(args.difference) /\ IsNone(args.intersection)
  /\ "path" \notin columns /\ NoOutput

Sentinel(r) ==
  /\ r.num_frames = 0 /\ r.height = 0 /\ r.width = 0
  /\ r.aspect_ratio = <<>> /\ r.fps = <<>>

\* C8: the --info stage keeps every row and goes on, and a row whose file
\* cannot be decoded, image or video, gets num_frames = 0, height = 0,
\* width = 0 and undefined aspect_ratio and fps.
C8_ProbeFailureSentinel ==
  [][pc = "info" /\ args.info /\ "path" \in columns
       /\ (\E k \in DOMAIN data : Undecodable(data[k].path)) =>
          /\ pc' = "fmin"
          /\ Len(data') = Len(data)
          /\ \A k \in DOMAIN data : Undecodable(data[k].path) => Sentinel(data'[k])]_vars

\* The caption the claim expects from prefix removal.
ExpectedCaption(s) ==
  LET m == MatchingPrefixes(s)
  IN  IF m = {} THEN s
      ELSE LET rest == Strip(Drop(s, Len(LLAVA_PREFIX[CHOOSE i \in m : \A j \in m : i <= j])))
           IN  IF rest # <<>> /\ IsLower(rest[1]) THEN <<Upper(rest[1])>> \o Tail(rest)
               ELSE rest

\* C9: the prefix removal stage leaves a caption that starts with no known
\* prefix as it was, and replaces a caption that starts with one by the
\* trimmed remainder after the first matching prefix, its first character
\* uppercased if it was lowercase.
C9_PrefixStage ==
  [][pc = "remove_caption_prefix" /\ args.remove_caption_prefix /\ "text" \in columns
       /\ (\A k \in DOMAIN data : IsStr(data[k].text)) =>
          /\ pc' = "unescape"
          /\ \A k \in DOMAIN data : data'[k].text = Str(ExpectedCaption(data[k].text.s))]_vars

LaterStages ==
  {"relpath", "abspath", "remove_caption_prefix", "unescape", "info", "fmin", "fmax",
   "aesmin", "matchmin", "sort_descending", "sort_ascending", "shard", "write_shard"}

\* C10: on a table of zero rows every later stage (processing, post-filters,
\* sort, shard) whose columns are present runs to completion (only a write
\* into a directory that does not exist fails), and the run ends having
\* written its output file(s), each with zero rows.
C10_EmptyRunCompletes ==
  /\ [][data = <<>> /\ pc \in LaterStages /\ ~ReadsMissingColumn =>
          pc' # "failed" \/ error' = "OSError"]_vars
  /\ [](pc = "done" /\ data = <<>> =>
          ~NoOutput /\ \A p \in DOMAIN files : files[p].rows = <<>>)
====
